---- MODULE Spec2Model ----
(***************************************************************************)
(* Native-shell authorization handshake of Auth0CordovaFork/index.js:      *)
(* authorize(url, callback) over the process-wide Session Store, the       *)
(* Browser Agent event stream, the deferred confirmCancel timer and the    *)
(* redirect hook.  Handlers run to completion (single-threaded runtime),   *)
(* so every handler is one atomic action.                                  *)
(***************************************************************************)
EXTENDS Integers, Sequences, FiniteSets, TLC

\* ---------------------------------------------------------------- bounds
MaxAttempts == 2          \* authorize calls made during one process life
MaxLogins == 1            \* calls of the Provider's public functions
MaxEvents == 2            \* Agent events delivered during one process life

\* ------------------------------------------------------ program constants
closingDelayMs == 1000

Attempts == 1..MaxAttempts
NoHook == 0
UserCanceled == "user canceled"
Errors == {"NetworkDown", "OpenFailed"}
CallbackArgs == {"function", "missing", "notFunction"}
Platforms == {"ios", "android"}
\* (sessionError, redirectUrl) handed to the redirect hook
HookArgs == {"redirectUrl", "otherUrl", "sessionError"}
\* what client.buildAuthorizeUrl may resolve with
Urls == {"urlA", "urlB"}

VARIABLES
  os,           \* value returned by getOS(), fixed for the process
  session,      \* Session Store: isAuthorizing, isClosing, current hook
  phase,        \* per attempt: position of the authorize call
  cbArg,        \* per attempt: the callback argument authorize received
  started,      \* per attempt: session.start was called
  opened,       \* per attempt: agent.open was called
  agentClosed,  \* per attempt: agent.close() was called
  delivered,    \* per attempt: number of Agent events handled
  timers,       \* setTimeout queue, in scheduling order
  cbLog,        \* per attempt: the invocations of callback, in order
  hookCalls,    \* per attempt: invocations of the redirect hook
  raced,        \* per attempt: the hook ran while a timer of the attempt waited
  acquireCalls, \* per attempt: calls of getAgent
  openCalls,    \* per attempt: calls of agent.open
  hookAtOpen,   \* per attempt: the hook was registered when agent.open was called
  hookRet,      \* per attempt: what the redirect hook returned last
  isNative,     \* Provider option isNative, fixed for the process
  mount,        \* position of the Provider's mount effect
  lop,          \* per Provider call: the public function that was called
  lpc,          \* per Provider call: position of the call and of its promise
  built,        \* per Provider call: the URL client.buildAuthorizeUrl resolved with
  passed,       \* per Provider call: the URL handed to authorize
  att,          \* per Provider call: the attempt its authorize call began
  clientCalls,  \* per Provider call: the delegated client's function called
  dispatched,   \* reducer actions dispatched, in order
  turn          \* the Coordinator handler that ran last

vars == <<os, session, phase, cbArg, started, opened, agentClosed,
          delivered, timers, cbLog, hookCalls, raced, acquireCalls, openCalls,
          hookAtOpen, hookRet, isNative, mount, lop, lpc, built, passed, att,
          clientCalls, dispatched, turn>>

\* the Provider's own state; the reducer's action log is kept apart
pvars == <<isNative, mount, lop, lpc, built, passed, att, clientCalls>>

\* --------------------------------------------------------- Session Store
CleanSession == [isAuthorizing |-> FALSE, isClosing |-> FALSE, current |-> NoHook]

\* a reset that forgets isClosing
cleanMut(s) == [s EXCEPT !.isAuthorizing = FALSE, !.current = NoHook]

clean(s) == CleanSession

start(s, hook) == [s EXCEPT !.isAuthorizing = TRUE, !.current = hook]

closing(s) == [s EXCEPT !.isClosing = TRUE]

IsClean(s) == ~s.isAuthorizing /\ ~s.isClosing

\* ------------------------------------------------------------ callback
\* One invocation of callback(err): the error it received and whether the
\* Session Store was clean at the moment of the call.
Invoke(log, err, s) == Append(log, [err |-> err, clean |-> IsClean(s)])

\* the typeof test dropped: only a missing callback is rejected
CallbackOkMut(cb) == cb # "missing"

\* !callback || typeof callback !== 'function' is the failure
CallbackOk(cb) == cb = "function"

\* the callback dispatching the Coordinator's error to the reducer
nativeCallbackMut(disp, error) == Append(disp, "ERROR")

\* nativeLogIn's callback: (error, ok) => { console.log({ error, ok }) }
nativeCallback(disp, error) == disp

\* the reducer log after callback(error) of attempt a: the attempts begun
\* by nativeLogIn carry its callback
onCallback(a, disp, error) ==
  IF \E i \in 1..MaxLogins : att[i] = a
    THEN nativeCallback(disp, error) ELSE disp

\* the isNative test inverted
useNativeMut(flag) == ~flag

\* if (clientOpts.isNative) in loginWithRedirect, loginWithPopup and
\* tryGetAccessTokenWithPopupOrReLogin
useNative(flag) == flag

\* getAgent's callback, error branch: return callback(err)
acquireErrLog(s, log, err) == Invoke(log, err, s)

\* the session.clean() of the error branch left out
errorBranchSessionMut(s) == s

\* agent.open's callback, error branch: session.clean(); return callback(error)
errorBranchSession(s) == clean(s)

errorBranchLog(s, log, err) == Invoke(log, err, errorBranchSession(s))

\* handleClose without its session.clean()
handleCloseSessionMut(s) == s

\* handleClose: if (session.isClosing) { session.clean(); return callback(...) }
handleCloseSession(s) == IF s.isClosing THEN clean(s) ELSE s

handleCloseLog(s, log) ==
  IF s.isClosing THEN Invoke(log, UserCanceled, handleCloseSession(s)) ELSE log

\* handleClose run at once on every platform
deferredMut(platform) == FALSE

\* getOS() === 'ios' runs handleClose at once, every other platform defers it
deferred(platform) == platform # "ios"

\* the redirect hook answering that it did not consume the event
hookReturnMut == FALSE

\* the redirect hook: agent.close(); return true
hookReturn == TRUE

\* --------------------------------------------------------------- timers
NewTimer(a) == [att |-> a, delay |-> closingDelayMs, redir |-> FALSE, own |-> FALSE]

\* every pending timer notes that a redirect was delivered while it waited
\* (redir), and whether it was the hook of its own attempt (own)
RECURSIVE SawRedirect(_, _)
SawRedirect(ts, a) ==
  IF ts = <<>> THEN <<>>
  ELSE <<[Head(ts) EXCEPT !.redir = TRUE, !.own = (@ \/ Head(ts).att = a)]>>
       \o SawRedirect(Tail(ts), a)

\* ------------------------------------------------------------- attempts
\* An attempt has ended once it threw, its acquisition failed, its callback
\* was invoked or its redirect was consumed.
Ended(a) ==
  \/ phase[a] \in {"thrown", "acqfailed"}
  \/ phase[a] = "open" /\ (cbLog[a] # <<>> \/ hookCalls[a] > 0)

InitCoordinator ==
  /\ os \in Platforms
  /\ session = clean(CleanSession)
  /\ phase = [a \in Attempts |-> "idle"]
  /\ cbArg = [a \in Attempts |-> "none"]
  /\ started = [a \in Attempts |-> FALSE]
  /\ opened = [a \in Attempts |-> FALSE]
  /\ agentClosed = [a \in Attempts |-> FALSE]
  /\ delivered = [a \in Attempts |-> 0]
  /\ timers = <<>>
  /\ cbLog = [a \in Attempts |-> <<>>]
  /\ hookCalls = [a \in Attempts |-> 0]
  /\ raced = [a \in Attempts |-> FALSE]
  /\ acquireCalls = [a \in Attempts |-> 0]
  /\ openCalls = [a \in Attempts |-> 0]
  /\ hookAtOpen = [a \in Attempts |-> FALSE]
  /\ hookRet = [a \in Attempts |-> "none"]
  /\ turn = [kind |-> "load", att |-> 0, arg |-> "none"]

InitProvider ==
  /\ lop = [i \in 1..MaxLogins |-> "none"]
  /\ lpc = [i \in 1..MaxLogins |-> "idle"]
  /\ built = [i \in 1..MaxLogins |-> "none"]
  /\ passed = [i \in 1..MaxLogins |-> "none"]
  /\ att = [i \in 1..MaxLogins |-> 0]
  /\ clientCalls = [i \in 1..MaxLogins |-> "none"]
  /\ dispatched = <<>>

\* authorize driven directly, inside a native shell, no Provider rendered
Init == InitCoordinator /\ InitProvider /\ isNative = TRUE /\ mount = "none"

\* the Provider rendered with either value of isNative: its effect is queued
ProviderInit ==
  InitCoordinator /\ InitProvider /\ isNative \in BOOLEAN /\ mount = "queued"

\* authorize(url, callback): the argument check, then getAgent(...)
\* Attempts are numbered in the order of the calls; a call is accepted
\* whatever the state of the earlier attempts.
authorizeCall(a, cb) ==
  /\ phase[a] = "idle"
  /\ \A b \in Attempts : b < a => phase[b] # "idle"
  /\ \A b \in Attempts : b > a => phase[b] = "idle"
  /\ cbArg' = [cbArg EXCEPT ![a] = cb]
  /\ IF CallbackOk(cb)
       THEN /\ phase' = [phase EXCEPT ![a] = "acquiring"]
            /\ acquireCalls' = [acquireCalls EXCEPT ![a] = @ + 1]
            /\ turn' = [kind |-> "authorize", att |-> a, arg |-> cb]
       ELSE /\ phase' = [phase EXCEPT ![a] = "thrown"]
            /\ acquireCalls' = acquireCalls
            /\ turn' = [kind |-> "throw", att |-> a, arg |-> cb]
  /\ UNCHANGED <<os, session, started, opened, agentClosed, delivered,
                 timers, cbLog, hookCalls, raced, openCalls, hookAtOpen, hookRet>>

authorize(a, cb) == authorizeCall(a, cb) /\ UNCHANGED <<pvars, dispatched>>

\* getAgent calls back with an error
AcquireErr(a, err) ==
  /\ phase[a] = "acquiring"
  /\ phase' = [phase EXCEPT ![a] = "acqfailed"]
  /\ cbLog' = [cbLog EXCEPT ![a] = acquireErrLog(session, @, err)]
  /\ turn' = [kind |-> "acquireErr", att |-> a, arg |-> err]
  /\ UNCHANGED <<os, session, cbArg, started, opened, agentClosed,
                 delivered, timers, hookCalls, raced,
                 acquireCalls, openCalls, hookAtOpen, hookRet>>
  /\ UNCHANGED pvars
  /\ dispatched' = onCallback(a, dispatched, err)

\* getAgent calls back with an agent: session.start(hook); agent.open(url, ...)
AcquireOk(a) ==
  /\ phase[a] = "acquiring"
  /\ phase' = [phase EXCEPT ![a] = "open"]
  /\ session' = start(session, a)
  /\ started' = [started EXCEPT ![a] = TRUE]
  /\ opened' = [opened EXCEPT ![a] = TRUE]
  /\ openCalls' = [openCalls EXCEPT ![a] = @ + 1]
  /\ hookAtOpen' = [hookAtOpen EXCEPT ![a] = (start(session, a).current = a)]
  /\ turn' = [kind |-> "acquireOk", att |-> a, arg |-> "none"]
  /\ UNCHANGED <<os, cbArg, agentClosed, delivered, timers, cbLog, hookCalls, raced,
                 acquireCalls, hookRet>>
  /\ UNCHANGED pvars
  /\ dispatched' = dispatched

\* The Agent may deliver an event to an opened attempt at any time.
RECURSIVE Total(_, _)
Total(f, n) == IF n = 0 THEN 0 ELSE f[n] + Total(f, n - 1)

Listening(a) ==
  phase[a] = "open" /\ opened[a] /\ Total(delivered, MaxAttempts) < MaxEvents

\* an open error answered by opening the Agent again
OpenErrorMut(a, err) ==
  /\ Listening(a)
  /\ delivered' = [delivered EXCEPT ![a] = @ + 1]
  /\ session' = errorBranchSession(session)
  /\ cbLog' = [cbLog EXCEPT ![a] = errorBranchLog(session, @, err)]
  /\ openCalls' = [openCalls EXCEPT ![a] = @ + 1]
  /\ turn' = [kind |-> "openErr", att |-> a, arg |-> err]
  /\ UNCHANGED <<os, phase, cbArg, started, opened, agentClosed, timers,
                 hookCalls, raced, acquireCalls, hookAtOpen, hookRet>>
  /\ UNCHANGED pvars
  /\ dispatched' = onCallback(a, dispatched, err)

\* agent.open's callback with error != null
OpenError(a, err) ==
  /\ Listening(a)
  /\ delivered' = [delivered EXCEPT ![a] = @ + 1]
  /\ session' = errorBranchSession(session)
  /\ cbLog' = [cbLog EXCEPT ![a] = errorBranchLog(session, @, err)]
  /\ turn' = [kind |-> "openErr", att |-> a, arg |-> err]
  /\ UNCHANGED <<os, phase, cbArg, started, opened, agentClosed, timers,
                 hookCalls, raced,
                 acquireCalls, openCalls, hookAtOpen, hookRet>>
  /\ UNCHANGED pvars
  /\ dispatched' = onCallback(a, dispatched, err)

\* agent.open's callback with result.event === 'closed'
Closed(a) ==
  /\ Listening(a)
  /\ delivered' = [delivered EXCEPT ![a] = @ + 1]
  /\ IF deferred(os)
       THEN /\ session' = closing(session)
            /\ timers' = Append(timers, NewTimer(a))
            /\ cbLog' = cbLog
       ELSE /\ session' = handleCloseSession(closing(session))
            /\ cbLog' = [cbLog EXCEPT ![a] = handleCloseLog(closing(session), @)]
            /\ timers' = timers
  /\ turn' = [kind |-> "closed", att |-> a, arg |-> "none"]
  /\ UNCHANGED <<os, phase, cbArg, started, opened, agentClosed, hookCalls, raced,
                 acquireCalls, openCalls, hookAtOpen, hookRet>>
  /\ UNCHANGED pvars
  /\ dispatched' = IF deferred(os) THEN dispatched
                    ELSE onCallback(a, dispatched, UserCanceled)

\* agent.open's callback with result.event === 'loaded': falls off the end
Loaded(a) ==
  /\ Listening(a)
  /\ delivered' = [delivered EXCEPT ![a] = @ + 1]
  /\ turn' = [kind |-> "loaded", att |-> a, arg |-> "none"]
  /\ UNCHANGED <<os, session, phase, cbArg, started, opened, agentClosed,
                 timers, cbLog, hookCalls, raced,
                 acquireCalls, openCalls, hookAtOpen, hookRet>>
  /\ UNCHANGED pvars
  /\ dispatched' = dispatched

\* an unknown event kind handled like 'closed'
OtherEventMut(a) ==
  /\ Listening(a)
  /\ delivered' = [delivered EXCEPT ![a] = @ + 1]
  /\ session' = closing(session)
  /\ timers' = Append(timers, NewTimer(a))
  /\ turn' = [kind |-> "other", att |-> a, arg |-> "none"]
  /\ UNCHANGED <<os, phase, cbArg, started, opened, agentClosed, cbLog,
                 hookCalls, raced, acquireCalls, openCalls, hookAtOpen, hookRet>>
  /\ UNCHANGED pvars
  /\ dispatched' = dispatched

\* agent.open's callback with any other event kind: ignored
OtherEvent(a) ==
  /\ Listening(a)
  /\ delivered' = [delivered EXCEPT ![a] = @ + 1]
  /\ turn' = [kind |-> "other", att |-> a, arg |-> "none"]
  /\ UNCHANGED <<os, session, phase, cbArg, started, opened, agentClosed,
                 timers, cbLog, hookCalls, raced,
                 acquireCalls, openCalls, hookAtOpen, hookRet>>
  /\ UNCHANGED pvars
  /\ dispatched' = dispatched

\* setTimeout(handleClose, closingDelayMs) fires; equal delays fire in order
TimerFire ==
  /\ timers # <<>>
  /\ LET a == Head(timers).att
     IN /\ session' = handleCloseSession(session)
        /\ cbLog' = [cbLog EXCEPT ![a] = handleCloseLog(session, @)]
        /\ timers' = Tail(timers)
        /\ turn' = [kind |-> "timer", att |-> a, arg |-> "none"]
  /\ UNCHANGED <<os, phase, cbArg, started, opened, agentClosed, delivered,
                 hookCalls, raced,
                 acquireCalls, openCalls, hookAtOpen, hookRet>>
  /\ UNCHANGED pvars
  /\ dispatched' = IF session.isClosing
                    THEN onCallback(Head(timers).att, dispatched, UserCanceled)
                    ELSE dispatched

\* session.onRedirectUri(url): the registered hook runs (agent.close();
\* return true) and a consumed redirect cleans the Session Store.
OnRedirectUri(arg) ==
  /\ session.current # NoHook
  /\ LET a == session.current
     IN /\ agentClosed' = [agentClosed EXCEPT ![a] = TRUE]
        /\ hookCalls' = [hookCalls EXCEPT ![a] = @ + 1]
        /\ hookRet' = [hookRet EXCEPT ![a] = IF hookReturn THEN "true" ELSE "false"]
        /\ session' = IF hookReturn THEN clean(session) ELSE session
        /\ timers' = SawRedirect(timers, a)
        /\ raced' = [raced EXCEPT ![a] = \E i \in 1..Len(timers) : timers[i].att = a]
        /\ turn' = [kind |-> "redirect", att |-> a, arg |-> arg]
  /\ UNCHANGED <<os, phase, cbArg, started, opened, delivered, cbLog,
                 acquireCalls, openCalls, hookAtOpen>>
  /\ UNCHANGED pvars
  /\ dispatched' = dispatched

Next ==
  \/ \E a \in Attempts, cb \in CallbackArgs : authorize(a, cb)
  \/ \E a \in Attempts, err \in Errors : AcquireErr(a, err)
  \/ \E a \in Attempts : AcquireOk(a)
  \/ \E a \in Attempts, err \in Errors : OpenError(a, err)
  \/ \E a \in Attempts : Closed(a)
  \/ \E a \in Attempts : Loaded(a)
  \/ \E a \in Attempts : OtherEvent(a)
  \/ TimerFire
  \/ \E arg \in HookArgs : OnRedirectUri(arg)

Spec == Init /\ [][Next]_vars

\* Scheduled timers eventually fire; Agent events and redirects are up to
\* the environment.
LiveSpec == Init /\ [][Next]_vars /\ WF_vars(TimerFire)

\* ------------------------------------------------------------ Provider
cvars == <<os, session, phase, cbArg, started, opened, agentClosed, delivered,
           timers, cbLog, hookCalls, raced, acquireCalls, openCalls,
           hookAtOpen, hookRet>>

Logins == 1..MaxLogins

\* Calls of the public functions are numbered in the order they are made; a
\* call is accepted whatever the earlier calls are doing.
NextCall(i) ==
  /\ lpc[i] = "idle"
  /\ \A j \in Logins : j < i => lpc[j] # "idle"
  /\ \A j \in Logins : j > i => lpc[j] = "idle"

\* the attempt the next authorize call begins
NextAttempt == 1 + Cardinality({a \in Attempts : phase[a] # "idle"})

\* what an awaited call of the mount effect does: it resolves, rejects with
\* a value that has toString, or rejects with undefined / null
MountOutcomes == {"ok", "error", "nullish"}

\* the catch of the mount effect: console.log({ error: error.toString() })
\* throws on undefined / null, so dispatch ERROR is reached for the other
\* rejection values only
mountCatch(disp, outcome) ==
  IF outcome = "nullish" THEN disp ELSE Append(disp, "ERROR")

\* the useEffect of the Provider: handleRedirectCallback() or checkSession()
\* settles; a rejection goes to the catch
MountChecked(outcome) ==
  /\ mount = "queued"
  /\ mount' = IF outcome = "ok" THEN "gettingUser" ELSE "done"
  /\ dispatched' = IF outcome = "ok" THEN dispatched
                    ELSE mountCatch(dispatched, outcome)
  /\ UNCHANGED <<cvars, isNative, lop, lpc, built, passed, att, clientCalls, turn>>

\* the useEffect of the Provider: client.getUser() settles: dispatch
\* INITIALISED, or the catch
MountUser(outcome) ==
  /\ mount = "gettingUser"
  /\ mount' = "done"
  /\ dispatched' = IF outcome = "ok" THEN Append(dispatched, "INITIALISED")
                    ELSE mountCatch(dispatched, outcome)
  /\ UNCHANGED <<cvars, isNative, lop, lpc, built, passed, att, clientCalls, turn>>

\* nativeLogIn up to its await: client.buildAuthorizeUrl(...) is called
nativeLogInStart(i, op) ==
  /\ lop' = [lop EXCEPT ![i] = op]
  /\ lpc' = [lpc EXCEPT ![i] = "building"]
  /\ UNCHANGED <<clientCalls, dispatched>>

\* loginWithRedirect(options)
loginWithRedirect(i) ==
  /\ NextCall(i)
  /\ IF useNative(isNative)
       THEN nativeLogInStart(i, "redirect")
       ELSE /\ lop' = [lop EXCEPT ![i] = "redirect"]
            /\ lpc' = [lpc EXCEPT ![i] = "clientRedirect"]
            /\ clientCalls' = [clientCalls EXCEPT ![i] = "loginWithRedirect"]
            /\ dispatched' = dispatched
  /\ UNCHANGED <<cvars, isNative, mount, built, passed, att, turn>>

\* loginWithPopup(options, config)
loginWithPopup(i) ==
  /\ NextCall(i)
  /\ IF useNative(isNative)
       THEN nativeLogInStart(i, "popup")
       ELSE /\ lop' = [lop EXCEPT ![i] = "popup"]
            /\ lpc' = [lpc EXCEPT ![i] = "clientPopup"]
            /\ clientCalls' = [clientCalls EXCEPT ![i] = "loginWithPopup"]
            /\ dispatched' = Append(dispatched, "LOGIN_POPUP_STARTED")
  /\ UNCHANGED <<cvars, isNative, mount, built, passed, att, turn>>

\* getAccessTokenSilently / getAccessTokenWithPopup up to the first await:
\* client.getTokenSilently or client.getTokenWithPopup is called
getTokenStart(i, op, fn) ==
  /\ lop' = [lop EXCEPT ![i] = op]
  /\ lpc' = [lpc EXCEPT ![i] = "token"]
  /\ clientCalls' = [clientCalls EXCEPT ![i] = fn]
  /\ dispatched' = dispatched

\* getAccessTokenSilently(opts)
getAccessTokenSilently(i) ==
  /\ NextCall(i)
  /\ getTokenStart(i, "tokenSilently", "getTokenSilently")
  /\ UNCHANGED <<cvars, isNative, mount, built, passed, att, turn>>

\* getAccessTokenWithPopup(opts, config)
getAccessTokenWithPopup(i) ==
  /\ NextCall(i)
  /\ getTokenStart(i, "tokenPopup", "getTokenWithPopup")
  /\ UNCHANGED <<cvars, isNative, mount, built, passed, att, turn>>

\* tryGetAccessTokenWithPopupOrReLogin(opts)
tryGetAccessTokenWithPopupOrReLogin(i) ==
  /\ NextCall(i)
  /\ IF useNative(isNative)
       THEN nativeLogInStart(i, "reLogin")
       ELSE getTokenStart(i, "reLogin", "getTokenWithPopup")
  /\ UNCHANGED <<cvars, isNative, mount, built, passed, att, turn>>

\* logout(opts): client.logout(opts); LOGOUT is dispatched when localOnly
logout(i, localOnly) ==
  /\ NextCall(i)
  /\ lop' = [lop EXCEPT ![i] = "logout"]
  /\ lpc' = [lpc EXCEPT ![i] = "returned"]
  /\ clientCalls' = [clientCalls EXCEPT ![i] = "logout"]
  /\ dispatched' = IF localOnly THEN Append(dispatched, "LOGOUT") ELSE dispatched
  /\ UNCHANGED <<cvars, isNative, mount, built, passed, att, turn>>

\* nativeLogIn after its await: authorize(url, callback); the promise of the
\* caller is settled in a later turn
BuildResolved(i, url) ==
  /\ lpc[i] = "building"
  /\ NextAttempt \in Attempts
  /\ built' = [built EXCEPT ![i] = url]
  /\ passed' = [passed EXCEPT ![i] = url]
  /\ att' = [att EXCEPT ![i] = NextAttempt]
  /\ authorizeCall(NextAttempt, "function")
  /\ lpc' = [lpc EXCEPT ![i] = "called"]
  /\ UNCHANGED <<isNative, mount, lop, clientCalls, dispatched>>

\* client.buildAuthorizeUrl rejects: the promise of the caller rejects
BuildRejected(i) ==
  /\ lpc[i] = "building"
  /\ lpc' = [lpc EXCEPT ![i] = "rejected"]
  /\ UNCHANGED <<cvars, isNative, mount, lop, built, passed, att, clientCalls,
                 dispatched, turn>>

\* await nativeLogIn(options) resumes: the promise of the caller resolves
LoginSettled(i) ==
  /\ lpc[i] = "called"
  /\ lpc' = [lpc EXCEPT ![i] = "resolved"]
  /\ UNCHANGED <<cvars, isNative, mount, lop, built, passed, att, clientCalls,
                 dispatched, turn>>

\* client.loginWithRedirect settles: the login promise settles the same way
ClientRedirectSettled(i, ok) ==
  /\ lpc[i] = "clientRedirect"
  /\ lpc' = [lpc EXCEPT ![i] = IF ok THEN "resolved" ELSE "rejected"]
  /\ UNCHANGED <<cvars, isNative, mount, lop, built, passed, att, clientCalls,
                 dispatched, turn>>

\* client.loginWithPopup resolves: client.getUser() is awaited next
ClientPopupResolved(i) ==
  /\ lpc[i] = "clientPopup"
  /\ lpc' = [lpc EXCEPT ![i] = "gettingUser"]
  /\ UNCHANGED <<cvars, isNative, mount, lop, built, passed, att, clientCalls,
                 dispatched, turn>>

\* client.loginWithPopup rejects: dispatch ERROR and return
ClientPopupRejected(i) ==
  /\ lpc[i] = "clientPopup"
  /\ dispatched' = Append(dispatched, "ERROR")
  /\ lpc' = [lpc EXCEPT ![i] = "resolved"]
  /\ UNCHANGED <<cvars, isNative, mount, lop, built, passed, att, clientCalls, turn>>

\* client.getUser() of loginWithPopup settles: LOGIN_POPUP_COMPLETE, or the
\* promise rejects
GetUserSettled(i, ok) ==
  /\ lpc[i] = "gettingUser"
  /\ dispatched' = IF ok THEN Append(dispatched, "LOGIN_POPUP_COMPLETE")
                    ELSE dispatched
  /\ lpc' = [lpc EXCEPT ![i] = IF ok THEN "resolved" ELSE "rejected"]
  /\ UNCHANGED <<cvars, isNative, mount, lop, built, passed, att, clientCalls, turn>>

\* the position of a token call whose getAccessToken... promise has settled:
\* getAccessTokenSilently / getAccessTokenWithPopup called directly hand it
\* to the caller; tryGetAccessTokenWithPopupOrReLogin returns the promise of
\* getAccessTokenWithPopup, and its own promise follows in a later turn
tokenDone(op, ok) ==
  IF op = "reLogin"
    THEN (IF ok THEN "innerResolved" ELSE "innerRejected")
    ELSE (IF ok THEN "resolved" ELSE "rejected")

\* client.getTokenSilently / getTokenWithPopup settles: client.getUser() is
\* awaited next, or tokenError is thrown
TokenSettled(i, ok) ==
  /\ lpc[i] = "token"
  /\ lpc' = [lpc EXCEPT ![i] = IF ok THEN "tokenUser" ELSE tokenDone(lop[i], FALSE)]
  /\ UNCHANGED <<cvars, isNative, mount, lop, built, passed, att, clientCalls,
                 dispatched, turn>>

\* client.getUser() of a token call settles: USER_UPDATED when updated_at
\* differs from the one in the state, then the token is returned
TokenUserSettled(i, outcome) ==
  /\ lpc[i] = "tokenUser"
  /\ dispatched' = IF outcome = "changed" THEN Append(dispatched, "USER_UPDATED")
                    ELSE dispatched
  /\ lpc' = [lpc EXCEPT ![i] = tokenDone(lop[i], outcome # "rejected")]
  /\ UNCHANGED <<cvars, isNative, mount, lop, built, passed, att, clientCalls, turn>>

\* return getAccessTokenWithPopup(opts) of tryGetAccessTokenWithPopupOrReLogin:
\* its promise settles as the returned one did
ReLoginSettled(i) ==
  /\ lpc[i] \in {"innerResolved", "innerRejected"}
  /\ lpc' = [lpc EXCEPT ![i] = IF lpc[i] = "innerResolved" THEN "resolved"
                                 ELSE "rejected"]
  /\ UNCHANGED <<cvars, isNative, mount, lop, built, passed, att, clientCalls,
                 dispatched, turn>>

ProviderNext ==
  \/ \E outcome \in MountOutcomes : MountChecked(outcome)
  \/ \E outcome \in MountOutcomes : MountUser(outcome)
  \/ \E i \in Logins : loginWithRedirect(i)
  \/ \E i \in Logins : loginWithPopup(i)
  \/ \E i \in Logins : getAccessTokenSilently(i)
  \/ \E i \in Logins : getAccessTokenWithPopup(i)
  \/ \E i \in Logins : tryGetAccessTokenWithPopupOrReLogin(i)
  \/ \E i \in Logins, localOnly \in BOOLEAN : logout(i, localOnly)
  \/ \E i \in Logins, url \in Urls : BuildResolved(i, url)
  \/ \E i \in Logins : BuildRejected(i)
  \/ \E i \in Logins : LoginSettled(i)
  \/ \E i \in Logins, ok \in BOOLEAN : ClientRedirectSettled(i, ok)
  \/ \E i \in Logins : ClientPopupResolved(i)
  \/ \E i \in Logins : ClientPopupRejected(i)
  \/ \E i \in Logins, ok \in BOOLEAN : GetUserSettled(i, ok)
  \/ \E i \in Logins, ok \in BOOLEAN : TokenSettled(i, ok)
  \/ \E i \in Logins, outcome \in {"changed", "same", "rejected"} :
       TokenUserSettled(i, outcome)
  \/ \E i \in Logins : ReLoginSettled(i)
  \/ \E a \in Attempts, err \in Errors : AcquireErr(a, err)
  \/ \E a \in Attempts : AcquireOk(a)
  \/ \E a \in Attempts, err \in Errors : OpenError(a, err)
  \/ \E a \in Attempts : Closed(a)
  \/ \E a \in Attempts : Loaded(a)
  \/ \E a \in Attempts : OtherEvent(a)
  \/ TimerFire
  \/ \E arg \in HookArgs : OnRedirectUri(arg)

\* the Provider drives the Coordinator
ProviderSpec == ProviderInit /\ [][ProviderNext]_vars

TypeOK ==
  /\ os \in Platforms
  /\ session \in [isAuthorizing : BOOLEAN, isClosing : BOOLEAN,
                  current : Attempts \cup {NoHook}]
  /\ \A a \in Attempts : delivered[a] \in 0..MaxEvents
  /\ isNative \in BOOLEAN
  /\ mount \in {"none", "queued", "gettingUser", "done"}
  /\ \A i \in 1..MaxLogins :
       /\ lop[i] \in {"none", "redirect", "popup", "reLogin", "tokenSilently",
                      "tokenPopup", "logout"}
       /\ lpc[i] \in {"idle", "building", "called", "clientRedirect",
                      "clientPopup", "gettingUser", "token", "tokenUser",
                      "innerResolved", "innerRejected",
                      "returned", "resolved", "rejected"}
       /\ built[i] \in Urls \cup {"none"}
       /\ passed[i] \in Urls \cup {"none"}
       /\ att[i] \in Attempts \cup {0}
       /\ clientCalls[i] \in {"none", "loginWithRedirect", "loginWithPopup",
                              "getTokenSilently", "getTokenWithPopup", "logout"}

\* ---------------------------------------------------- shared vocabulary
Cancel == [err |-> UserCanceled, clean |-> TRUE]

Cancels(a) == {i \in 1..Len(cbLog[a]) : cbLog[a][i].err = UserCanceled}

\* this step invoked the callback of attempt a with "user canceled"
NewCancel(a) ==
  /\ Len(cbLog'[a]) > Len(cbLog[a])
  /\ cbLog'[a][Len(cbLog'[a])].err = UserCanceled

\* this step is a firing of the deferred confirmCancel
TimerStep == timers # <<>> /\ turn'.kind = "timer"

\* the redirect hook of attempt a ran while one of a's timers was pending
Raced(a) == raced[a]

\* attempt a is in flight: authorize was called and the attempt has not ended
InFlight(a) == phase[a] = "acquiring" \/ (started[a] /\ ~Ended(a))

\* the redirect hook of attempt a ran before any 'closed' of a was handled
HookFirst(a) == hookCalls[a] > 0 /\ ~Raced(a)

\* ---------------------------------------------------------------- C1
\* C1: for one authorize call the callback is invoked at most once, whatever
\* Agent events, timer firings and redirects follow.
C1_AtMostOnce == \A a \in Attempts : Len(cbLog[a]) <= 1

\* ---------------------------------------------------------------- C2
\* C2: an attempt with a callable callback that saw an acquisition error, a
\* 'closed' event or a redirect-hook invocation eventually has its callback
\* invoked (timers fire: LiveSpec).
Terminating(a) ==
  /\ cbArg[a] = "function"
  /\ \/ phase[a] = "acqfailed"
     \/ hookCalls[a] > 0
     \/ \E i \in 1..Len(timers) : timers[i].att = a
     \/ raced[a]

C2_EventuallyCalledBack ==
  \A a \in Attempts : Terminating(a) ~> (cbLog[a] # <<>>)

\* ---------------------------------------------------------------- C3
\* C3 as stated: on a non-iOS platform the 'closed' turn does not invoke the
\* callback, and a confirmCancel that fires with no redirect delivered since
\* its 'closed' resets the Session Store and invokes callback("user canceled").
C3_AsStated ==
  [][ /\ (turn'.kind = "closed" /\ deferred(os) => cbLog' = cbLog)
      /\ (TimerStep /\ ~Head(timers).redir =>
            /\ session' = CleanSession
            /\ cbLog'[turn'.att] = Append(cbLog[turn'.att], Cancel)) ]_vars

\* C3 amended: on a non-iOS platform the 'closed' turn does not invoke the
\* callback and schedules the confirmCancel, and a confirmCancel that fires
\* while isClosing is still true resets the Session Store to clean and invokes
\* the callback of its attempt with "user canceled".
C3_CancelAfterGrace ==
  [][ /\ (turn'.kind = "closed" /\ os # "ios" =>
            /\ cbLog' = cbLog
            /\ Len(timers') = Len(timers) + 1
            /\ timers'[Len(timers')].att = turn'.att
            /\ timers'[Len(timers')].delay = 1000)
      /\ (TimerStep /\ session.isClosing =>
            /\ session' = CleanSession
            /\ cbLog'[turn'.att] = Append(cbLog[turn'.att], Cancel)
            /\ \A b \in Attempts \ {turn'.att} : cbLog'[b] = cbLog[b]) ]_vars

C3_Witness ==
  /\ os = "android"
  /\ turn.kind = "timer"
  /\ \A a \in Attempts : hookCalls[a] = 0
  /\ delivered[turn.att] = 1
  /\ cbLog[turn.att] = <<Cancel>>
  /\ IsClean(session)

\* ---------------------------------------------------------------- C4
\* C4: once the redirect hook of an attempt ran while that attempt's
\* confirmCancel was pending, isClosing is false when the timer fires and the
\* callback of the attempt is never invoked with "user canceled".
C4_RedirectBeatsTimer ==
  [][ /\ (TimerStep /\ Head(timers).own =>
            ~session.isClosing /\ cbLog' = cbLog)
      /\ \A a \in Attempts : Raced(a) => ~NewCancel(a) ]_vars

\* ---------------------------------------------------------------- C5
\* C5: on iOS the 'closed' turn itself confirms the cancellation: when it
\* returns the Session Store is clean, the callback of the attempt has been
\* invoked with "user canceled" and no timer was scheduled.
C5_IosCancelsAtOnce ==
  [][ turn'.kind = "closed" /\ os = "ios" =>
        /\ session' = CleanSession
        /\ cbLog'[turn'.att] = Append(cbLog[turn'.att], Cancel)
        /\ timers' = timers
        /\ timers' = <<>> ]_vars

\* 'loaded' (or another ignored event) came first, then 'closed'
C5_Witness ==
  /\ os = "ios"
  /\ turn.kind = "closed"
  /\ delivered[turn.att] = 2
  /\ cbLog[turn.att] = <<Cancel>>
  /\ IsClean(session)
  /\ timers = <<>>

\* ---------------------------------------------------------------- C6
\* C6: once the redirect hook of an attempt ran before any 'closed' of that
\* attempt, no later handler of the attempt sets isClosing and the callback
\* of the attempt is never invoked with "user canceled".
C6_HookFirstNeverCloses ==
  [][ \A a \in Attempts : HookFirst(a) =>
        /\ (turn'.att = a => ~session'.isClosing)
        /\ ~NewCancel(a) ]_vars

\* ---------------------------------------------------------------- C7
\* C7: the Session Store is clean at every invocation of a callback and
\* after every terminal turn (acquisition error, open error, confirmed
\* cancellation, consumed redirect).
C7_TerminalIsClean ==
  /\ \A a \in Attempts : \A i \in 1..Len(cbLog[a]) : cbLog[a][i].clean
  /\ turn.kind \in {"acquireErr", "openErr", "redirect"} => IsClean(session)

\* ---------------------------------------------------------------- C8
\* C8: authorize with a missing or non-callable callback throws at once: no
\* Agent is acquired or opened, session.start is not called, and the call
\* leaves the Session Store and everything else as it was.
NotCallable(cb) == cb \in {"missing", "notFunction"}

C8_ThrowsBeforeSideEffects ==
  /\ [](\A a \in Attempts : NotCallable(cbArg[a]) =>
          /\ phase[a] = "thrown"
          /\ ~started[a] /\ ~opened[a] /\ ~agentClosed[a]
          /\ acquireCalls[a] = 0 /\ openCalls[a] = 0
          /\ delivered[a] = 0 /\ hookCalls[a] = 0 /\ cbLog[a] = <<>>)
  /\ [][ \A a \in Attempts : cbArg[a] = "none" /\ NotCallable(cbArg'[a]) =>
          UNCHANGED <<session, started, opened, agentClosed, delivered,
                      timers, cbLog, hookCalls, raced, acquireCalls,
                      openCalls, hookAtOpen, hookRet>> ]_vars

C8_Witness ==
  \E a \in Attempts : cbArg[a] = "notFunction" /\ phase[a] = "thrown"
                      /\ turn.kind = "throw"

\* ---------------------------------------------------------------- C9
\* C9: a failed acquisition invokes the callback exactly once, with the
\* acquisition error, never calls session.start or agent.open for the
\* attempt, and leaves the Session Store as it was: clean when no other
\* attempt is in flight.
C9_AcquireErrorReported ==
  /\ [](\A a \in Attempts : phase[a] = "acqfailed" =>
          /\ Len(cbLog[a]) = 1
          /\ cbLog[a][1].err \in Errors
          /\ ~started[a] /\ ~opened[a] /\ delivered[a] = 0)
  /\ [][ \A a \in Attempts : phase[a] = "acquiring" /\ phase'[a] = "acqfailed" =>
          /\ Len(cbLog'[a]) = 1
          /\ cbLog'[a][1].err = turn'.arg
          /\ session' = session
          /\ ((\A b \in Attempts \ {a} : ~InFlight(b)) => IsClean(session')) ]_vars

\* ---------------------------------------------------------------- C10
\* C10: an open error resets the Session Store to clean, then invokes the
\* callback once with that error; nothing is scheduled and isClosing is not
\* set in that turn.
C10_OpenErrorCleansThenReports ==
  [][ turn'.kind = "openErr" =>
        /\ session' = CleanSession
        /\ cbLog'[turn'.att] =
             Append(cbLog[turn'.att], [err |-> turn'.arg, clean |-> TRUE])
        /\ \A b \in Attempts \ {turn'.att} : cbLog'[b] = cbLog[b]
        /\ timers' = timers ]_vars

C10_Witness ==
  /\ turn.kind = "openErr"
  /\ turn.arg = "OpenFailed"
  /\ cbLog[turn.att] = <<[err |-> "OpenFailed", clean |-> TRUE]>>
  /\ session = CleanSession

\* ---------------------------------------------------------------- C11
\* C11: clean() applied to the Session Store in any state it can be in gives
\* isAuthorizing = false and isClosing = false, a second clean() changes
\* nothing, and the turns that call it leave exactly that state.
C11_CleanResets ==
  /\ IsClean(clean(session))
  /\ clean(clean(session)) = clean(session)
  /\ turn.kind \in {"openErr", "redirect"} =>
       IsClean(session) /\ clean(session) = session

\* clean() has just reset a store that was authorizing and closing
C11_Witness ==
  /\ os = "android"
  /\ turn.kind = "redirect"
  /\ raced[turn.att]
  /\ session = CleanSession

\* ---------------------------------------------------------------- C14
\* C14: isClosing is only ever true while an attempt is in flight.
C14_ClosingImpliesAuthorizing == session.isClosing => session.isAuthorizing

\* ---------------------------------------------------------------- C15
\* C15: isAuthorizing is true from an attempt's session.start until the
\* attempt ends, and false whenever no attempt is in flight.
C15_AuthorizingWhileInFlight ==
  /\ \A a \in Attempts : started[a] /\ ~Ended(a) => session.isAuthorizing
  /\ (\A a \in Attempts : ~InFlight(a)) => ~session.isAuthorizing

\* ---------------------------------------------------------------- C16
\* C16: a 'loaded' event, or an event of any other kind that is not 'closed'
\* or an error, changes nothing: Session Store, timers and callback
\* invocations stay as they were and the attempt goes on listening.
C16_IgnoredEventsAreInert ==
  [][ turn'.kind \in {"loaded", "other"} =>
        /\ session' = session
        /\ timers' = timers
        /\ cbLog' = cbLog
        /\ phase' = phase /\ opened' = opened ]_vars

C16_Witness ==
  /\ turn.kind \in {"loaded", "other"}
  /\ session.isAuthorizing /\ session.isClosing
  /\ timers # <<>>
  /\ cbLog[turn.att] = <<>>
  /\ delivered[turn.att] = 2

\* ---------------------------------------------------------------- C17
\* C17: a confirmCancel that fires with isClosing false changes nothing, and
\* once one timer of an attempt has delivered the cancellation every later
\* timer of that attempt is a no-op.
C17_LaterTimersAreNoOps ==
  [][ TimerStep =>
        /\ (~session.isClosing => session' = session /\ cbLog' = cbLog)
        /\ (Cancels(Head(timers).att) # {} => cbLog' = cbLog) ]_vars

\* ---------------------------------------------------------------- C18
\* C18: every invocation of the redirect hook closes the Agent of its attempt
\* and returns true, whatever it is given, and the hook was registered by
\* session.start when agent.open was called.
C18_HookClosesAndConsumes ==
  /\ \A a \in Attempts : hookCalls[a] > 0 => agentClosed[a] /\ hookRet[a] = "true"
  /\ \A a \in Attempts : hookRet[a] # "false"
  /\ \A a \in Attempts : openCalls[a] > 0 => started[a] /\ hookAtOpen[a]

C18_Witness ==
  /\ turn.kind = "redirect"
  /\ turn.arg = "sessionError"
  /\ hookCalls[turn.att] = 1
  /\ agentClosed[turn.att]
  /\ hookRet[turn.att] = "true"

\* ---------------------------------------------------------------- C19
\* C19: one authorize call acquires the Agent at most once and opens it at
\* most once; a failed acquisition opens nothing, and neither an open error
\* nor a cancellation leads to another acquire or open.
C19_NoRetry ==
  \A a \in Attempts :
    /\ acquireCalls[a] <= 1
    /\ openCalls[a] <= 1
    /\ (phase[a] = "acqfailed" => openCalls[a] = 0)

\* an open error and a cancellation were both reported, the Agent opened once
C19_Witness ==
  \E a \in Attempts :
    /\ Len(cbLog[a]) >= 2
    /\ \E i \in 1..Len(cbLog[a]) : cbLog[a][i].err \in Errors
    /\ acquireCalls[a] = 1 /\ openCalls[a] = 1

\* ---------------------------------------------------------------- C20
\* C20: a confirmCancel whose attempt ended by a consumed redirect while it
\* was pending, and that fires after a later attempt has started and received
\* its own 'closed', leaves the Session Store of the later attempt alone and
\* does not invoke the earlier attempt's callback.
C20_TimerActsOnOwnAttempt ==
  [][ /\ TimerStep
      /\ Head(timers).own
      /\ session.current \notin {NoHook, Head(timers).att}
      /\ \E i \in 1..Len(timers) : timers[i].att = session.current
      => /\ session' = session
         /\ cbLog' = cbLog ]_vars

\* ---------------------------------------------------------------- C12
\* the call is one of the two login operations
IsLogin(i) == lop[i] \in {"redirect", "popup"}

\* C12: a login takes the flow isNative selects.  Native: the delegated
\* client's loginWithRedirect/loginWithPopup is never called, the login
\* builds a URL and the URL handed to authorize is the one
\* client.buildAuthorizeUrl resolved with.  Not native: authorize is never
\* called and no URL is built, and the delegated client's flow of the
\* operation is called.
C12_FlowFollowsIsNative ==
  /\ \A i \in Logins : IsLogin(i) =>
       /\ isNative =>
            /\ clientCalls[i] = "none"
            /\ lpc[i] \in {"building", "called", "resolved", "rejected"}
            /\ passed[i] = built[i]
            /\ (lpc[i] \in {"called", "resolved"} <=> built[i] \in Urls)
            /\ (built[i] \in Urls =>
                  /\ att[i] \in Attempts
                  /\ cbArg[att[i]] = "function"
                  /\ acquireCalls[att[i]] = 1)
       /\ ~isNative =>
            /\ att[i] = 0 /\ built[i] = "none" /\ passed[i] = "none"
            /\ lpc[i] \notin {"building", "called"}
            /\ clientCalls[i] =
                 (IF lop[i] = "redirect" THEN "loginWithRedirect"
                  ELSE "loginWithPopup")
  /\ ~isNative => \A a \in Attempts : phase[a] = "idle" /\ acquireCalls[a] = 0

C12_Witness ==
  \E i \in Logins :
    /\ isNative /\ lop[i] = "popup"
    /\ built[i] = "urlB" /\ passed[i] = "urlB"
    /\ att[i] \in Attempts /\ phase[att[i]] = "open"
    /\ clientCalls[i] = "none"

\* ---------------------------------------------------------------- C13
\* this step invoked the callback of some attempt
CallbackStep == \E a \in Attempts : Len(cbLog'[a]) > Len(cbLog[a])

\* C13: on the native flow a step in which the Coordinator invokes the
\* callback dispatches nothing to the reducer, whatever the callback
\* receives, and once authorize has been called the login promise can
\* resolve at once and does nothing else: it does not wait for the callback.
C13_NativeOutcomeNotDispatched ==
  [][isNative =>
       /\ (CallbackStep => dispatched' = dispatched)
       /\ \A i \in Logins :
            /\ lpc[i] = "called" => ENABLED LoginSettled(i)
            /\ (lpc[i] = "called" /\ lpc'[i] # "called") => lpc'[i] = "resolved"]_vars

\* the login promise resolved before any callback; the callback then
\* received an error and "user canceled", and nothing was dispatched
C13_Witness ==
  \E i \in Logins :
    /\ isNative /\ IsLogin(i) /\ lpc[i] = "resolved"
    /\ att[i] \in Attempts
    /\ \E k \in 1..Len(cbLog[att[i]]) : cbLog[att[i]][k].err \in Errors
    /\ Cancels(att[i]) # {}
    /\ dispatched = <<>>
====
